---- MODULE Spec2Model ----
(***************************************************************************)
(* Model of lambda_function.py: the OCR -> PII detection -> redaction      *)
(* pipeline of lambda_handler, with redact_pii modelled character by       *)
(* character (regular expression substitution, stable descending sort,     *)
(* Python slicing).                                                        *)
(*                                                                         *)
(* A text is a sequence of one-character strings.  Offsets are Python      *)
(* offsets (0-based, half-open); sequences are 1-based, so the character   *)
(* at Python index i is t[i + 1].                                          *)
(***************************************************************************)
EXTENDS Integers, Sequences, FiniteSets

VARIABLES pc, calls, credentials, download_path, extracted_text, response,
          pii_entities, redacted_text, result

vars == <<pc, calls, credentials, download_path, extracted_text, response,
          pii_entities, redacted_text, result>>

(***************************************************************************)
(* Bounds of the model.                                                    *)
(***************************************************************************)
\* longest document given to the line pass alone (SpecLines)
MaxDocLen == 5
\* longest text, longest span list and largest offset given to redact_pii (SpecRedact)
MaxTextLen == 4
MaxSpans == 2
MaxOffset == 4
\* longest OCR text, longest Comprehend response and largest offset in it (Spec)
MaxOcrLen == 2
MaxDetected == 2
MaxPiiOffset == 1

\* the characters texts are made of: a mask character, a digit, another
\* character and the line separator
Chars == {"*", "1", "a", "\n"}

SeqsUpTo(S, n) == UNION {[1..k -> S] : k \in 0..n}

Max(S) == CHOOSE x \in S : \A y \in S : y <= x

Min2(a, b) == IF a <= b THEN a ELSE b

(***************************************************************************)
(* Python string operations used by redact_pii.                            *)
(***************************************************************************)
\* s[:n] for n >= 0: an n beyond the end is clamped to the length
SliceTo(s, n) == SubSeq(s, 1, Min2(n, Len(s)))

\* s[n:] for n >= 0: empty when n is at or beyond the end
SliceFrom(s, n) == IF n >= Len(s) THEN <<>> ELSE SubSeq(s, n + 1, Len(s))

\* the characters of an entity's Type, as the f-string writes them
TypeChars(type) ==
    CASE type = "NAME" -> <<"N", "A", "M", "E">>
      [] type = "IP_ADDRESS" -> <<"I", "P", "_", "A", "D", "D", "R", "E", "S", "S">>

\* f"[REDACTED {entity['Type']}]"
Placeholder(type) ==
    <<"[", "R", "E", "D", "A", "C", "T", "E", "D", " ">> \o TypeChars(type) \o <<"]">>

\* '[REDACTED LINE]'
LinePlaceholder ==
    <<"[", "R", "E", "D", "A", "C", "T", "E", "D", " ", "L", "I", "N", "E", "]">>

(***************************************************************************)
(* The regular expression  .*\*+\d+  (re.MULTILINE has no effect on it:    *)
(* the pattern has no ^ or $).                                             *)
(***************************************************************************)
\* re.DOTALL variant of '.'
IsDotAll(c) == TRUE

\* '.' matches every character but the line separator
IsDot(c) == c # "\n"

IsStar(c) == c = "*"

IsDigit(c) == c = "1"

Min(S) == CHOOSE x \in S : \A y \in S : x <= y

\* where a greedy '.*' started at p stops: the first position at or after p
\* holding a line separator, or one past the end
DotRunEnd(t, p) == Min({k \in p..(Len(t) + 1) : k = Len(t) + 1 \/ ~IsDot(t[k])})

\* where a greedy '\*+' started at p stops
StarRunEnd(t, p) == Min({k \in p..(Len(t) + 1) : k = Len(t) + 1 \/ ~IsStar(t[k])})

\* where a greedy '\d+' started at p stops
DigitRunEnd(t, p) == Min({k \in p..(Len(t) + 1) : k = Len(t) + 1 \/ ~IsDigit(t[k])})

\* the ends m of '\*+' started at n after which '\d+' matches
StarEnds(t, n) == {m \in (n + 1)..StarRunEnd(t, n) : DigitRunEnd(t, m) > m}

\* the positions n at which '.*' started at p can stop and the rest of the
\* pattern still match
DotEnds(t, p) == {n \in p..DotRunEnd(t, p) : StarEnds(t, n) # {}}

\* position after the match starting at p (1-based), or 0 when the pattern
\* does not match there.  Every quantifier is greedy and the engine
\* backtracks: the longest '.*' that lets the rest match wins, then the
\* longest '\*+', then the longest '\d+'
match_end(t, p) ==
    IF DotEnds(t, p) = {} THEN 0
    ELSE DigitRunEnd(t, Max(StarEnds(t, Max(DotEnds(t, p)))))

RECURSIVE SubFrom(_, _, _)
\* re.sub scanning from position p with `left` replacements still allowed
\* (left < 0: no limit): leftmost non-overlapping matches are replaced
SubFrom(t, p, left) ==
    IF p > Len(t) THEN <<>>
    ELSE IF left # 0 /\ match_end(t, p) > 0
         THEN LinePlaceholder \o SubFrom(t, match_end(t, p), left - 1)
         ELSE <<t[p]>> \o SubFrom(t, p + 1, left)

\* pattern.sub('[REDACTED LINE]', text, count=1)
pattern_sub_once(text) == SubFrom(text, 1, 1)

\* pattern.sub('[REDACTED LINE]', text)
pattern_sub(text) == SubFrom(text, 1, -1)

(***************************************************************************)
(* The span stage of redact_pii.                                           *)
(***************************************************************************)
RECURSIVE InsertDesc(_, _)
\* x, which precedes every element of s in the input list, goes before the
\* first element whose key is not greater than its own
InsertDesc(x, s) ==
    IF s = <<>> THEN <<x>>
    ELSE IF Head(s).BeginOffset > x.BeginOffset
         THEN <<Head(s)>> \o InsertDesc(x, Tail(s))
         ELSE <<x>> \o s

RECURSIVE sorted_entities(_)
\* sorted(pii_entities, key=lambda x: x['BeginOffset'], reverse=True):
\* descending by BeginOffset, stable (equal keys keep their input order)
sorted_entities(s) ==
    IF s = <<>> THEN <<>> ELSE InsertDesc(Head(s), sorted_entities(Tail(s)))

\* one iteration of the loop body
substitute(text, entity) ==
    SliceTo(text, entity.BeginOffset) \o Placeholder(entity.Type)
        \o SliceFrom(text, entity.EndOffset)

RECURSIVE apply_entities(_, _)
apply_entities(text, s) ==
    IF s = <<>> THEN text ELSE apply_entities(substitute(text, Head(s)), Tail(s))

redact_pii(text, pii_entities_arg) ==
    IF pii_entities_arg # <<>>
    THEN apply_entities(pattern_sub(text), sorted_entities(pii_entities_arg))
    ELSE pattern_sub(text)

(***************************************************************************)
(* The collaborators of lambda_handler.                                    *)
(***************************************************************************)
\* the kinds Comprehend labels a span with
Kinds == {"NAME", "IP_ADDRESS"}

Entity(kind, b, e) == [Type |-> kind, BeginOffset |-> b, EndOffset |-> e]

\* entity lists over the given kinds with offsets in 0..maxOff, in any order,
\* valid or not: nothing in the code constrains what it is handed
EntityLists(kinds, maxOff, maxLen) ==
    SeqsUpTo({Entity(k, b, e) : k \in kinds, b \in 0..maxOff, e \in 0..maxOff}, maxLen)

\* the list comprehension of detect_pii_with_comprehend without its condition
keep_all_entities(entities) == entities

\* [entity for entity in response['Entities'] if entity['Type'] != 'IP_ADDRESS']
filter_entities(entities) == SelectSeq(entities, LAMBDA entity : entity.Type # "IP_ADDRESS")

Raised == [raised |-> TRUE, text |-> <<>>]

Returned(t) == [raised |-> FALSE, text |-> t]

\* an extract_text_from_image that does not need the file
extract_text_without_file(image_path) ==
    {Raised} \cup {Returned(t) : t \in SeqsUpTo(Chars, MaxOcrLen)}

\* the outcomes of extract_text_from_image: open(None) raises TypeError; with
\* a file the Vision call raises or yields the text of the first annotation
extract_text_from_image(image_path) ==
    IF image_path = "None" THEN {Raised}
    ELSE {Raised} \cup {Returned(t) : t \in SeqsUpTo(Chars, MaxOcrLen)}

\* json.dumps of a text: a quoted string with the line separator escaped
\* (the other characters of the model are written as they are)
JsonString(t) ==
    <<"\"">> \o
    (IF t = <<>> THEN <<>>
     ELSE LET Esc(c) == IF c = "\n" THEN <<"\\", "n">> ELSE <<c>>
              F[i \in 1..Len(t)] == IF i = 1 THEN Esc(t[1]) ELSE F[i - 1] \o Esc(t[i])
          IN F[Len(t)])
    \o <<"\"">>

\* json.dumps({'redacted_text': redacted_text})
json_dumps(t) ==
    <<"{", "\"", "r", "e", "d", "a", "c", "t", "e", "d", "_", "t", "e", "x", "t", "\"", ":", " ">>
        \o JsonString(t) \o <<"}">>

NoResponse == [statusCode |-> 0, body |-> <<>>]

(***************************************************************************)
(* lambda_handler, one action per statement that calls a collaborator.     *)
(***************************************************************************)
Init ==
    /\ pc = "start"
    /\ calls = <<>>
    /\ credentials = "None"
    /\ download_path = "None"
    /\ extracted_text = <<>>
    /\ response = <<>>
    /\ pii_entities = <<>>
    /\ redacted_text = <<>>
    /\ result = NoResponse

\* get_secret: the secret is returned, or the exception is re-raised
GetSecret ==
    /\ pc = "start"
    /\ calls' = Append(calls, "get_secret")
    /\ \/ credentials' = "creds" /\ pc' = "have_credentials"
       \/ credentials' = credentials /\ pc' = "raised"
    /\ UNCHANGED <<download_path, extracted_text, response, pii_entities,
                   redacted_text, result>>

\* download_photo: the path of the downloaded file, or None on any exception
\* (a missing object, a failed download)
DownloadPhoto ==
    /\ pc = "have_credentials"
    /\ calls' = Append(calls, "download_photo")
    /\ download_path' \in {"None", "/tmp/photo"}
    /\ pc' = "downloaded"
    /\ UNCHANGED <<credentials, extracted_text, response, pii_entities,
                   redacted_text, result>>

ExtractText ==
    /\ pc = "downloaded"
    /\ calls' = Append(calls, "extract_text_from_image")
    /\ \E out \in extract_text_from_image(download_path) :
          IF out.raised
          THEN pc' = "raised" /\ extracted_text' = extracted_text
          ELSE pc' = "extracted" /\ extracted_text' = out.text
    /\ UNCHANGED <<credentials, download_path, response, pii_entities,
                   redacted_text, result>>

\* detect_pii_with_comprehend: the Comprehend call raises, or its entities
\* are filtered and returned
DetectPii ==
    /\ pc = "extracted"
    /\ calls' = Append(calls, "detect_pii_with_comprehend")
    /\ \/ pc' = "raised" /\ UNCHANGED <<response, pii_entities>>
       \/ \E entities \in EntityLists(Kinds, MaxPiiOffset, MaxDetected) :
             /\ response' = entities
             /\ pii_entities' = filter_entities(entities)
             /\ pc' = "detected"
    /\ UNCHANGED <<credentials, download_path, extracted_text, redacted_text, result>>

RedactPii ==
    /\ pc = "detected"
    /\ calls' = Append(calls, "redact_pii")
    /\ redacted_text' = redact_pii(extracted_text, pii_entities)
    /\ pc' = "redacted"
    /\ UNCHANGED <<credentials, download_path, extracted_text, response,
                   pii_entities, result>>

ReturnResponse ==
    /\ pc = "redacted"
    /\ result' = [statusCode |-> 200, body |-> json_dumps(redacted_text)]
    /\ pc' = "done"
    /\ UNCHANGED <<calls, credentials, download_path, extracted_text, response,
                   pii_entities, redacted_text>>

Next ==
    \/ GetSecret
    \/ DownloadPhoto
    \/ ExtractText
    \/ DetectPii
    \/ RedactPii
    \/ ReturnResponse

Spec == Init /\ [][Next]_vars

(***************************************************************************)
(* redact_pii alone, on every text and entity list within the bounds: the  *)
(* handler entered at its call of redact_pii.                              *)
(***************************************************************************)
HandlerBeforeRedact ==
    /\ pc = "detected"
    /\ calls = <<"get_secret", "download_photo", "extract_text_from_image",
                 "detect_pii_with_comprehend">>
    /\ credentials = "creds"
    /\ download_path = "/tmp/photo"
    /\ redacted_text = <<>>
    /\ result = NoResponse

InitRedact ==
    /\ HandlerBeforeRedact
    /\ extracted_text \in SeqsUpTo(Chars, MaxTextLen)
    /\ response \in EntityLists({"NAME"}, MaxOffset, MaxSpans)
    /\ pii_entities = filter_entities(response)

NextRedact ==
    \/ RedactPii
    \/ ReturnResponse

SpecRedact == InitRedact /\ [][NextRedact]_vars

(***************************************************************************)
(* The line pass alone: redact_pii with no entities, called on a document  *)
(* and then on its own output.                                             *)
(***************************************************************************)
InitLines ==
    /\ HandlerBeforeRedact
    /\ extracted_text \in SeqsUpTo(Chars, MaxDocLen)
    /\ response = <<>>
    /\ pii_entities = <<>>

\* redact_pii(redacted_text, []): the output is the next call's input
RedactAgain ==
    /\ pc = "redacted"
    /\ calls' = Append(calls, "redact_pii")
    /\ extracted_text' = redacted_text
    /\ redacted_text' = redact_pii(redacted_text, pii_entities)
    /\ pc' = "redacted_again"
    /\ UNCHANGED <<credentials, download_path, response, pii_entities, result>>

NextLines ==
    \/ RedactPii
    \/ RedactAgain

SpecLines == InitLines /\ [][NextLines]_vars

(***************************************************************************)
(* Vocabulary of the properties.                                           *)
(***************************************************************************)
RECURSIVE Lines(_)
\* the lines of a text: the maximal runs of characters between line separators
Lines(t) ==
    IF \A k \in 1..Len(t) : t[k] # "\n" THEN <<t>>
    ELSE LET k == Min({j \in 1..Len(t) : t[j] = "\n"})
         IN <<SubSeq(t, 1, k - 1)>> \o Lines(SubSeq(t, k + 1, Len(t)))

\* the line contains a mask character immediately followed by a digit
HasMaskDigit(line) ==
    \E i \in 1..(Len(line) - 1) : line[i] = "*" /\ line[i + 1] = "1"

\* number of the line (1-based) holding the gap before Python index i
LineOfGap(t, i) == 1 + Cardinality({k \in 1..i : k <= Len(t) /\ t[k] = "\n"})

\* the lines a span touches: those of its characters, or of its position when empty
LinesOfSpan(t, e) ==
    IF e.BeginOffset = e.EndOffset THEN {LineOfGap(t, e.BeginOffset)}
    ELSE {LineOfGap(t, i) : i \in e.BeginOffset..(e.EndOffset - 1)}

ValidSpan(t, e) == e.BeginOffset <= e.EndOffset /\ e.EndOffset <= Len(t)

AllValid(t, s) == \A i \in 1..Len(s) : ValidSpan(t, s[i])

Overlap(a, b) == ~(a.EndOffset <= b.BeginOffset \/ b.EndOffset <= a.BeginOffset)

NonOverlapping(s) == \A i, j \in 1..Len(s) : i # j => ~Overlap(s[i], s[j])

DistinctBegins(s) == \A i, j \in 1..Len(s) : i # j => s[i].BeginOffset # s[j].BeginOffset

OutsideRewrittenLines(t, s) ==
    \A i \in 1..Len(s) : \A l \in LinesOfSpan(t, s[i]) : ~HasMaskDigit(Lines(t)[l])

\* some rewritten line lies before some span
RewrittenLineBeforeSpan(t, s) ==
    \E i \in 1..Len(s) : \E l \in 1..Len(Lines(t)) :
        HasMaskDigit(Lines(t)[l]) /\ \A m \in LinesOfSpan(t, s[i]) : l < m

Reorderings(s) ==
    {[i \in 1..Len(s) |-> s[f[i]]] :
        f \in {g \in [1..Len(s) -> 1..Len(s)] : \A i, j \in 1..Len(s) : g[i] = g[j] => i = j}}

RECURSIVE WithoutKinds(_, _)
\* the list with every span of an excluded kind removed
WithoutKinds(s, excluded) ==
    IF s = <<>> THEN <<>>
    ELSE IF Head(s).Type \in excluded THEN WithoutKinds(Tail(s), excluded)
         ELSE <<Head(s)>> \o WithoutKinds(Tail(s), excluded)

Occurs(sub, t) == \E k \in 0..(Len(t) - Len(sub)) : SubSeq(t, k + 1, k + Len(sub)) = sub

RECURSIVE Expected(_, _, _)
\* the redaction read off the original text, from Python index i on: a span
\* becomes its placeholder, a match of the line pattern becomes the line
\* placeholder, every other character is copied
Expected(t, s, i) ==
    LET here == {k \in 1..Len(s) : s[k].BeginOffset = i}
        Copy == IF i >= Len(t) THEN <<>> ELSE <<t[i + 1]>> \o Expected(t, s, i + 1)
    IN IF here # {}
       THEN LET e == s[CHOOSE k \in here : TRUE]
            IN Placeholder(e.Type) \o
               (IF e.EndOffset > i THEN Expected(t, s, e.EndOffset) ELSE Copy)
       ELSE IF i < Len(t) /\ match_end(t, i + 1) > 0
            THEN LinePlaceholder \o Expected(t, s, match_end(t, i + 1) - 1)
            ELSE Copy

RedactDone == pc \in {"redacted", "done"}

CallOrder ==
    <<"get_secret", "download_photo", "extract_text_from_image",
      "detect_pii_with_comprehend", "redact_pii">>

(***************************************************************************)
(* Properties.                                                             *)
(***************************************************************************)
\* C1: for valid, pairwise non-overlapping spans (taken with pairwise distinct
\* BeginOffset, so that the order of application is not in question) lying
\* outside every rewritten line, redact_pii yields the original text with each
\* span replaced by its placeholder and every other character outside the
\* rewritten lines preserved, also when a rewritten line precedes a span.
C1_OffsetsSurviveLinePass ==
    (/\ RedactDone
     /\ AllValid(extracted_text, pii_entities)
     /\ NonOverlapping(pii_entities)
     /\ DistinctBegins(pii_entities)
     /\ OutsideRewrittenLines(extracted_text, pii_entities))
    => redacted_text = Expected(extracted_text, pii_entities, 0)

\* C2: every line containing a '*' run followed by digits is replaced in its
\* entirety by exactly one '[REDACTED LINE]'.
C2_WholeLineReplaced ==
    pc = "redacted" =>
        LET in == Lines(extracted_text)
            out == Lines(redacted_text)
        IN /\ Len(out) = Len(in)
           /\ \A i \in 1..Len(in) : HasMaskDigit(in[i]) => out[i] = LinePlaceholder

\* C3: a span with BeginOffset > EndOffset or EndOffset beyond the text makes
\* redact_pii fail: no redacted text exists and no response is returned.
C3_InvalidSpanRejected ==
    ~AllValid(extracted_text, pii_entities) => ~RedactDone /\ result = NoResponse

\* C4: two overlapping spans are rejected or give a merged or adjacent
\* redaction: the text before the union of the ranges, one or both
\* placeholders whole, the text after the union.
C4_OverlapMergedOrRejected ==
    (/\ RedactDone
     /\ Len(pii_entities) = 2
     /\ AllValid(extracted_text, pii_entities)
     /\ Overlap(pii_entities[1], pii_entities[2])
     /\ pattern_sub(extracted_text) = extracted_text)
    => LET a == pii_entities[1]
           b == pii_entities[2]
           pre == SliceTo(extracted_text, Min2(a.BeginOffset, b.BeginOffset))
           post == SliceFrom(extracted_text, Max({a.EndOffset, b.EndOffset}))
           A == Placeholder(a.Type)
           B == Placeholder(b.Type)
       IN redacted_text \in {pre \o mid \o post : mid \in {A, B, A \o B, B \o A}}

\* C5: for valid pairwise non-overlapping spans every permutation of the
\* entity list yields the same redacted text.
C5_OrderIndependent ==
    (/\ RedactDone
     /\ AllValid(extracted_text, pii_entities)
     /\ NonOverlapping(pii_entities))
    => \A perm \in Reorderings(pii_entities) :
          redact_pii(extracted_text, perm) = redacted_text

C7_LinePassIdempotent ==
    pc = "redacted_again" => redacted_text = extracted_text

C7_Witness ==
    /\ pc = "redacted_again"
    /\ extracted_text = LinePlaceholder \o <<"*", "\n", "1">>
    /\ redacted_text = extracted_text

\* C8: the line pass alters a line if and only if that line contains a '*'
\* immediately followed by a digit; lines are neither joined nor split.
C8_LineAlteredIffMatch ==
    pc \in {"redacted", "redacted_again"} =>
        LET in == Lines(extracted_text)
            out == Lines(redacted_text)
        IN /\ Len(out) = Len(in)
           /\ \A i \in 1..Len(in) : (out[i] # in[i]) <=> HasMaskDigit(in[i])

C8_Witness ==
    /\ pc = "redacted"
    /\ extracted_text = <<"*", "\n", "1", "*", "1">>
    /\ redacted_text = <<"*", "\n">> \o LinePlaceholder

\* C9: the spans are applied in order of BeginOffset descending, ties broken
\* by EndOffset descending (stated for valid, pairwise non-overlapping spans,
\* where a tie is an empty span at the start of another span).
C9_SortedWithTieBreak ==
    (RedactDone /\ AllValid(extracted_text, pii_entities) /\ NonOverlapping(pii_entities)) =>
        LET s == sorted_entities(pii_entities)
        IN \A i, j \in 1..Len(s) :
              i < j => \/ s[i].BeginOffset > s[j].BeginOffset
                       \/ /\ s[i].BeginOffset = s[j].BeginOffset
                          /\ s[i].EndOffset >= s[j].EndOffset

\* C10: the steps of lambda_handler run in their fixed order; redact_pii has
\* run only when a text was extracted and the entities were detected; a 200
\* response carries redact_pii's result on that text and entity list; after
\* a raise there is no response.
C10_Sequential ==
    /\ calls = SubSeq(CallOrder, 1, Len(calls))
    /\ Len(calls) = 5 => /\ RedactDone
                         /\ credentials = "creds"
                         /\ download_path # "None"
                         /\ redacted_text = redact_pii(extracted_text, pii_entities)
    /\ result.statusCode = 200 =>
          /\ pc = "done"
          /\ Len(calls) = 5
          /\ result.body = json_dumps(redact_pii(extracted_text, pii_entities))
    /\ pc # "done" => result = NoResponse

C10_Witness ==
    /\ pc = "done"
    /\ result.statusCode = 200
    /\ extracted_text = <<"a", "\n">>
    /\ pii_entities # <<>>
    /\ Occurs(<<"\\", "n">>, result.body)

\* the reference of C1 on the cases no rewritten line precedes a span
ExpectedAgrees ==
    (/\ RedactDone
     /\ AllValid(extracted_text, pii_entities)
     /\ NonOverlapping(pii_entities)
     /\ DistinctBegins(pii_entities)
     /\ OutsideRewrittenLines(extracted_text, pii_entities)
     /\ ~RewrittenLineBeforeSpan(extracted_text, pii_entities))
    => redacted_text = Expected(extracted_text, pii_entities, 0)

====
